---- MODULE Spec2Model ----
(***************************************************************************)
(* Credential lifecycle of oauth2.0-kit: the authorization-code flow       *)
(* (POST /oauth, GET /oauth/gcp/imap-redirect), the single-file credential *)
(* store debug_gcp_imap_creds.json, get_credentials with its refresh and   *)
(* its fire-and-forget update_credentials task.                            *)
(*                                                                         *)
(* The coroutines get_credentials, update_credentials and oauth_callback   *)
(* contain no await, so on the asyncio event loop each of them runs from   *)
(* its first line to its return without another coroutine in between; a    *)
(* task made by asyncio.create_task runs later, in creation order.  Each   *)
(* is therefore one action; the task queue is a sequence.                  *)
(*                                                                         *)
(* The provider (Google's token endpoint and the google-auth library) is   *)
(* the environment: it issues fresh tokens from a counter and chooses the  *)
(* outcome of every exchange and refresh.                                  *)
(***************************************************************************)
EXTENDS Integers, Sequences, FiniteSets, TLC

(* ---------------------------- bounds ----------------------------------- *)
MaxTime == 2
MaxTokens == 3
TTL == 3
MaxCodes == 1
MaxCalls == 2

(* ------------------------- program constants --------------------------- *)
None == "<None>"
Users == {"alice", "bob"}
GCP == "gcp"
IMAP == "imap"
REDIRECT_URL == "http://localhost:8080/oauth/gcp/imap-redirect"
CLIENT_ID == "client-id"
CLIENT_SECRET == "client-secret"
TOKEN_URI == "https://oauth2.googleapis.com/token"
UNIVERSE_DOMAIN == "googleapis.com"
IMAP_SCOPES == << "openid",
                  "https://www.googleapis.com/auth/userinfo.email",
                  "https://www.googleapis.com/auth/userinfo.profile",
                  "https://www.googleapis.com/auth/gmail.labels",
                  "https://www.googleapis.com/auth/gmail.metadata",
                  "https://www.googleapis.com/auth/gmail.modify" >>

\* Time is counted in ticks, Sub ticks to the second: an expiry carries a
\* sub-second part that the stored ISO string loses when it is parsed back.
Sub == 2
\* google.auth._helpers.REFRESH_THRESHOLD: a token counts as expired this
\* long before its expiry.
RefreshThreshold == 1

\* The file debug_gcp_imap_creds.json before anything was written to it.
Absent == [missing |-> TRUE]

(* ------------------------------- state --------------------------------- *)
VARIABLES
    store,        \* content of debug_gcp_imap_creds.json, or Absent
    now,          \* the clock
    nextTok,      \* provider: number of the next token it issues
    grants,       \* provider: the user behind each refresh token it issued
    urls,         \* consent URLs handed out by POST /oauth
    codes,        \* authorization codes issued and not yet exchanged
    tasks,        \* event loop: update_credentials tasks not yet run
    running,      \* the process is up
    last,         \* the last handler that ran: arguments, result, effects
    authorized,   \* history: emails that completed an authorization
    refreshedFrom,\* history: the stored token each successful refresh replaced
    criteria      \* a call of build_imap_search_criteria: arguments, result

vars == << store, now, nextTok, grants, urls, codes, tasks, running, last,
           authorized, refreshedFrom, criteria >>

(* ------------------------------ provider ------------------------------- *)
AccessToken(n) == "at" \o ToString(n)
RefreshToken(n) == "rt" \o ToString(n)
IdToken(u) == "jwt:" \o u
Sub_(u) == "sub:" \o u

\* IDToken.verify_oauth2_token: the claims signed into the identity token.
decrypt_id_token(id_token) ==
    LET u == CHOOSE v \in Users : IdToken(v) = id_token
    IN  [email |-> u, sub |-> Sub_(u)]

(* ------------------------ credentials and records ---------------------- *)
\* A google.oauth2.credentials.Credentials object.
Credentials(token, refresh_token, id_token, expiry) ==
    [ token |-> token, refresh_token |-> refresh_token, id_token |-> id_token,
      token_uri |-> TOKEN_URI, client_id |-> CLIENT_ID,
      client_secret |-> CLIENT_SECRET, scopes |-> IMAP_SCOPES,
      rapt_token |-> None, universe_domain |-> UNIVERSE_DOMAIN,
      account |-> "", expiry |-> expiry ]

\* creds.valid: a token is present and the skewed expiry is still ahead.
Valid(creds, t) ==
    creds.token # None /\ t < creds.expiry - RefreshThreshold

ScalarKeys == { "token", "refresh_token", "token_uri", "client_id",
                "client_secret", "rapt_token", "universe_domain", "account" }

\* json.loads(creds.to_json()): entries that are None are removed, the
\* expiry is flattened to an ISO string, the identity token is not a key.
to_json(creds) ==
    LET keys == { k \in ScalarKeys : creds[k] # None } \cup {"scopes", "expiry"}
    IN  [ k \in keys |-> IF k = "expiry" THEN [iso |-> creds.expiry]
                                         ELSE creds[k] ]

Get(d, k) == IF k \in DOMAIN d THEN d[k] ELSE None

format_credentials(email, uid, provider, service, creds_dict, extras) ==
    [ email |-> email,
      uid |-> uid,
      provider |-> provider,
      service |-> service,
      creds |-> [ id |-> Get(creds_dict, "id"),
                  token |-> Get(creds_dict, "token"),
                  refresh_token |-> Get(creds_dict, "refresh_token"),
                  client_id |-> Get(creds_dict, "client_id"),
                  token_uri |-> Get(creds_dict, "token_uri"),
                  client_secret |-> Get(creds_dict, "client_secret"),
                  scopes |-> Get(creds_dict, "scopes"),
                  rapt_token |-> Get(creds_dict, "rapt_token"),
                  universe_domain |-> Get(creds_dict, "universe_domain"),
                  account |-> Get(creds_dict, "account"),
                  expiry |-> Get(creds_dict, "expiry") ],
      extras |-> extras ]

\* Credentials.from_authorized_user_info, then the identity token from the
\* "extras" entry of the dictionary it was given, when it has one.  The
\* expiry string is parsed without its fractional part; the token endpoint is
\* always Google's; an empty universe_domain or account takes its default.
get_creds_from_dict(creds_dict) ==
    LET expiry == creds_dict.expiry.iso - (creds_dict.expiry.iso % Sub)
        id_token ==
            IF "extras" \in DOMAIN creds_dict
               /\ "id_token" \in DOMAIN creds_dict["extras"]
               /\ creds_dict["extras"]["id_token"] # None
            THEN creds_dict["extras"]["id_token"]
            ELSE None
    IN  [ token |-> creds_dict.token,
          refresh_token |-> creds_dict.refresh_token,
          id_token |-> id_token,
          token_uri |-> TOKEN_URI,
          client_id |-> creds_dict.client_id,
          client_secret |-> creds_dict.client_secret,
          scopes |-> creds_dict.scopes,
          rapt_token |-> creds_dict.rapt_token,
          universe_domain |-> IF creds_dict.universe_domain = None
                              THEN UNIVERSE_DOMAIN
                              ELSE creds_dict.universe_domain,
          account |-> IF creds_dict.account = None THEN ""
                      ELSE creds_dict.account,
          expiry |-> expiry ]

\* As register_imap_credentials, were the identity token not required: a
\* record without identity is stored.
register_imap_credentials_unchecked(creds) ==
    LET id_info == IF creds.id_token # None
                   THEN decrypt_id_token(creds.id_token)
                   ELSE [email |-> None, sub |-> None]
    IN  [ ok |-> TRUE,
          record |-> format_credentials(id_info.email, id_info.sub,
                         GCP, IMAP, to_json(creds),
                         [id_token |-> creds.id_token]) ]

\* As register_imap_credentials, were the subject claim passed as the email
\* and the email claim as the uid.
register_imap_credentials_swapped(creds) ==
    IF creds.id_token # None
    THEN LET id_info == decrypt_id_token(creds.id_token)
         IN  [ ok |-> TRUE,
               record |-> format_credentials(id_info.sub, id_info.email,
                              GCP, IMAP, to_json(creds),
                              [id_token |-> creds.id_token]) ]
    ELSE [ ok |-> FALSE, error |-> "ValueError: ID token is required" ]

\* register_imap_credentials up to its write: the record it will store, or
\* the ValueError it raises when the credentials carry no identity token.
register_imap_credentials(creds) ==
    IF creds.id_token # None
    THEN LET id_info == decrypt_id_token(creds.id_token)
         IN  [ ok |-> TRUE,
               record |-> format_credentials(id_info.email, id_info.sub,
                              GCP, IMAP, to_json(creds),
                              [id_token |-> creds.id_token]) ]
    ELSE [ ok |-> FALSE, error |-> "ValueError: ID token is required" ]

\* As update_credentials, were the record in the file saved again in place
\* of the refreshed credentials.
update_credentials_stored(creds) ==
    IF creds.id_token # None
    THEN [ ok |-> TRUE, record |-> store ]
    ELSE [ ok |-> FALSE, error |-> "ValueError: ID token is required" ]

\* As update_credentials, were the record merged with the one in the file:
\* the token it replaces is kept among the extras.
update_credentials_merged(creds) ==
    IF creds.id_token # None
    THEN LET id_info == decrypt_id_token(creds.id_token)
         IN  [ ok |-> TRUE,
               record |-> format_credentials(id_info.email, id_info.sub,
                              GCP, IMAP, to_json(creds),
                              [id_token |-> creds.id_token,
                               previous |-> IF store = Absent THEN None
                                            ELSE store.creds.token]) ]
    ELSE [ ok |-> FALSE, error |-> "ValueError: ID token is required" ]

\* update_credentials up to its write: the same steps on refreshed credentials.
update_credentials(creds) ==
    IF creds.id_token # None
    THEN LET id_info == decrypt_id_token(creds.id_token)
         IN  [ ok |-> TRUE,
               record |-> format_credentials(id_info.email, id_info.sub,
                              GCP, IMAP, to_json(creds),
                              [id_token |-> creds.id_token]) ]
    ELSE [ ok |-> FALSE, error |-> "ValueError: ID token is required" ]

\* As get_imap_auth_url, were offline access not asked for.
get_imap_auth_url_online(scopes) ==
    [ redirect_uri |-> REDIRECT_URL, scopes |-> scopes,
      access_type |-> "online", include_granted_scopes |-> "true",
      prompt |-> "consent" ]

\* get_imap_auth_url: the consent URL, as the parameters it carries.
get_imap_auth_url(scopes) ==
    [ redirect_uri |-> REDIRECT_URL, scopes |-> scopes,
      access_type |-> "offline", include_granted_scopes |-> "true",
      prompt |-> "consent" ]

\* Service.get_scopes
get_scopes(service, provider) ==
    IF service = IMAP /\ provider = GCP THEN IMAP_SCOPES ELSE None

\* As needs_refresh, were the validity test of line 96 left out.
needs_refresh_never(creds, t) == FALSE

\* As needs_refresh, were the validity test dropped: every read refreshes.
needs_refresh_always(creds, t) == TRUE

\* get_credentials, line 96: the loaded credentials need a refresh.
needs_refresh(creds, t) == ~Valid(creds, t)

\* As on_refresh_error, were the rejection swallowed whatever the policy.
on_refresh_error_swallowed(raise_refresh_error, e) == [ kind |-> "None" ]

\* get_credentials, lines 99-102: what a provider rejection turns into.
on_refresh_error(raise_refresh_error, e) ==
    IF raise_refresh_error
    THEN [ kind |-> "RefreshError",
           message |-> "Failed to refresh GCP OAuth credentials.",
           error |-> e ]
    ELSE [ kind |-> "None" ]

\* As provider_calls, were a refused or failed request sent a second time.
provider_calls_retried(reply) ==
    IF reply \in {"invalid_grant", "transport"} THEN 2 ELSE 1

\* The requests one handler sends to the provider for one reply: creds.refresh
\* (line 98) and fetch_token (main.py line 62) are each called once, in no
\* loop, and an exception leaves the handler.
provider_calls(reply) == 1

\* As create_task, were the coroutine never handed to the event loop.
create_task_dropped(queue, task) == queue

\* get_credentials, lines 103-106: the task queue after a successful refresh.
create_task(queue, task) == Append(queue, task)

(* ------------------------------ history -------------------------------- *)
\* last: the handler, its arguments (email, policy), the provider's reply to
\* the call it made, its result, the number of refresh calls, code exchanges
\* and tasks it made, and the store as it found it.
Outcome(op, email, policy, reply, result, refreshes, exchanges, scheduled, pre) ==
    [ op |-> op, email |-> email, policy |-> policy, reply |-> reply,
      result |-> result, refreshes |-> refreshes, exchanges |-> exchanges,
      scheduled |-> scheduled, pre |-> pre ]

\* No call of build_imap_search_criteria is under way.
NotCalled == [called |-> FALSE]

\* What last holds after a step that is not a handler of the service.
Idle == Outcome("-", None, None, None, [kind |-> "None"], 0, 0, 0, Absent)

\* The state after lifespan has run setup(): nothing stored, nothing queued.
Init ==
    /\ store = Absent
    /\ now = 0
    /\ nextTok = 1
    /\ grants = << >>
    /\ urls = {}
    /\ codes = {}
    /\ tasks = << >>
    /\ running = TRUE
    /\ last = Idle
    /\ authorized = {}
    /\ refreshedFrom = << >>
    /\ criteria = NotCalled

(* ------------------------------ actions -------------------------------- *)
\* Time passes.
Tick ==
    /\ now < MaxTime
    /\ now' = now + 1
    /\ last' = Idle
    /\ UNCHANGED criteria
    /\ UNCHANGED << store, nextTok, grants, urls, codes, tasks, running,
                    authorized, refreshedFrom >>

\* What a client can put into the body of POST /oauth.
RequestProviders == {GCP, "aws"}
RequestServices == {IMAP, "smtp"}

\* POST /oauth for one request body.  OAuthRequest admits only members of the
\* two enums, anything else is refused before the handler runs; the handler
\* answers a supported pair with the consent URL and raises for the rest.
oauth_response(provider, service) ==
    IF provider \notin {GCP} \/ service \notin {IMAP}
    THEN [kind |-> "RequestValidationError", supported |-> FALSE]
    ELSE IF provider = GCP /\ service = IMAP
    THEN [kind |-> "url", supported |-> TRUE,
          url |-> get_imap_auth_url(get_scopes(IMAP, GCP))]
    ELSE [kind |-> "ValueError", supported |-> FALSE]

\* As oauth, were the pending authorization written to the credential file.
oauth_recording ==
    /\ running
    /\ \E provider \in RequestProviders, service \in RequestServices :
         LET response == oauth_response(provider, service)
         IN  /\ urls' = IF response.kind = "url"
                        THEN urls \cup {response.url} ELSE urls
             /\ last' = Outcome("oauth", None, None, None, response,
                            0, 0, 0, store)
    /\ store' = format_credentials(None, None, GCP, IMAP,
                    to_json(Credentials(None, None, None, now)),
                    [id_token |-> None])
    /\ UNCHANGED criteria
    /\ UNCHANGED << now, nextTok, grants, codes, tasks, running,
                    authorized, refreshedFrom >>

\* POST /oauth: hand out the consent URL for a supported pair, fail otherwise.
oauth ==
    /\ running
    /\ \E provider \in RequestProviders, service \in RequestServices :
         LET response == oauth_response(provider, service)
         IN  /\ urls' = IF response.kind = "url"
                        THEN urls \cup {response.url} ELSE urls
             /\ last' = Outcome("oauth", None, None, None, response,
                            0, 0, 0, store)
    /\ UNCHANGED criteria
    /\ UNCHANGED << store, now, nextTok, grants, codes, tasks, running,
                    authorized, refreshedFrom >>

\* Out of band: a user follows a consent URL and the provider issues a code
\* that remembers whether offline access was asked for.
Consent ==
    /\ Cardinality(codes) < MaxCodes
    /\ \E u \in Users, url \in urls :
         codes' = codes \cup {[user |-> u, access_type |-> url.access_type]}
    /\ last' = Idle
    /\ UNCHANGED criteria
    /\ UNCHANGED << store, now, nextTok, grants, urls, tasks, running,
                    authorized, refreshedFrom >>

BadCode == [user |-> None, access_type |-> None]

\* What the redirect can carry, and what the provider can answer to the
\* exchange of a code: tokens with or without an identity token, or an error.
CallbackQueries ==
    { [error |-> "access_denied", code |-> BadCode] }
    \cup { [error |-> None, code |-> c] : c \in codes \cup {BadCode} }

ExchangeReplies(code) ==
    IF code = BadCode THEN { "invalid_grant" }
    ELSE { "invalid_grant", "tokens", "tokens_without_id_token" }

\* GET /oauth/gcp/imap-redirect.  error_param: the provider reported a denied
\* consent.  Otherwise the code is exchanged (fetch_token) and the result is
\* registered; any exception becomes the error page.
oauth_callback ==
    /\ running
    /\ \E query \in CallbackQueries :
       \E reply \in ExchangeReplies(query.code) :
         LET error_param == query.error
             code == query.code
             with_id == (reply = "tokens")
         IN
         IF error_param # None
         THEN /\ last' = Outcome("oauth_callback", None, None, None,
                             [kind |-> "error_page", error |-> error_param],
                             0, 0, 0, store)
              /\ UNCHANGED << store, nextTok, grants, codes, authorized >>
         ELSE IF reply = "invalid_grant"
         THEN \* fetch_token raises: the provider refused the exchange
              /\ last' = Outcome("oauth_callback", None, None, reply,
                             [kind |-> "error_page", error |-> reply],
                             0, provider_calls(reply), 0, store)
              /\ UNCHANGED << store, nextTok, grants, codes, authorized >>
         ELSE /\ nextTok <= MaxTokens
              /\ LET refresh_token ==
                         IF code.access_type = "offline"
                         THEN RefreshToken(nextTok) ELSE None
                     creds == Credentials(AccessToken(nextTok), refresh_token,
                                  IF with_id THEN IdToken(code.user) ELSE None,
                                  now + TTL)
                     reg == register_imap_credentials(creds)
                 IN  /\ nextTok' = nextTok + 1
                     /\ codes' = codes \ {code}
                     /\ grants' = IF refresh_token # None
                                  THEN (refresh_token :> code.user) @@ grants
                                  ELSE grants
                     /\ IF reg.ok
                        THEN /\ store' = reg.record
                             /\ authorized' = authorized \cup {reg.record.email}
                             /\ last' = Outcome("oauth_callback", None, None,
                                            reply,
                                            [kind |-> "success_page",
                                             creds |-> creds,
                                             user |-> code.user],
                                            0, provider_calls(reply), 0, store)
                        ELSE /\ store' = store
                             /\ authorized' = authorized
                             /\ last' = Outcome("oauth_callback", None, None,
                                            reply,
                                            [kind |-> "error_page",
                                             error |-> reg.error],
                                            0, provider_calls(reply), 0, store)
    /\ UNCHANGED criteria
    /\ UNCHANGED << now, urls, tasks, running, refreshedFrom >>

\* get_credentials(email, service, raise_refresh_error).  The provider
\* chooses the refresh outcome: new tokens (with or without a rotated refresh
\* token, with or without an identity token), a rejection (RefreshError), or a
\* transport failure, which is not caught.  The file never holds an empty
\* document (both writers dump a formatted record), so line 93 is not taken.
get_credentials ==
    /\ running
    /\ \E email \in Users, service \in {IMAP}, raise_refresh_error \in BOOLEAN :
       IF store = Absent
       THEN \* open() fails
            /\ last' = Outcome("get_credentials", email, raise_refresh_error,
                           None, [kind |-> "FileNotFoundError"], 0, 0, 0, store)
            /\ UNCHANGED << nextTok, grants, tasks, refreshedFrom >>
       ELSE LET creds == get_creds_from_dict(store.creds) IN
            IF ~needs_refresh(creds, now)
            THEN /\ last' = Outcome("get_credentials", email, raise_refresh_error,
                                None, [kind |-> "creds", creds |-> creds],
                                0, 0, 0, store)
                 /\ UNCHANGED << nextTok, grants, tasks, refreshedFrom >>
            ELSE IF creds.refresh_token = None
            THEN \* refresh() raises RefreshError before any request
                 /\ last' = Outcome("get_credentials", email, raise_refresh_error,
                                "missing_fields",
                                on_refresh_error(raise_refresh_error,
                                                 "missing_fields"),
                                0, 0, 0, store)
                 /\ UNCHANGED << nextTok, grants, tasks, refreshedFrom >>
            ELSE \E reply \in {"tokens", "invalid_grant", "transport"} :
                 CASE reply = "invalid_grant" ->
                      /\ last' = Outcome("get_credentials", email,
                                     raise_refresh_error, reply,
                                     on_refresh_error(raise_refresh_error,
                                                      reply),
                                     provider_calls(reply), 0, 0,
                                     store)
                      /\ UNCHANGED << nextTok, grants, tasks, refreshedFrom >>
                   [] reply = "transport" ->
                      /\ last' = Outcome("get_credentials", email,
                                     raise_refresh_error, reply,
                                     [kind |-> "TransportError"],
                                     provider_calls(reply), 0, 0,
                                     store)
                      /\ UNCHANGED << nextTok, grants, tasks, refreshedFrom >>
                   [] reply = "tokens" ->
                      /\ nextTok <= MaxTokens
                      /\ \E rotate \in BOOLEAN, with_id \in BOOLEAN :
                         LET owner == grants[creds.refresh_token]
                             refreshed ==
                               [ creds EXCEPT
                                   !.token = AccessToken(nextTok),
                                   !.expiry = now + TTL,
                                   !.refresh_token =
                                       IF rotate THEN RefreshToken(nextTok)
                                       ELSE @,
                                   !.id_token =
                                       IF with_id THEN IdToken(owner)
                                       ELSE None ]
                         IN  /\ nextTok' = nextTok + 1
                             /\ grants' = IF rotate
                                          THEN (RefreshToken(nextTok) :> owner)
                                               @@ grants
                                          ELSE grants
                             /\ tasks' = create_task(tasks,
                                            [ creds |-> refreshed,
                                              from |-> creds,
                                              rotated |-> rotate ])
                             /\ refreshedFrom' =
                                    Append(refreshedFrom, creds.token)
                             /\ last' = Outcome("get_credentials", email,
                                            raise_refresh_error, reply,
                                            [kind |-> "creds",
                                             creds |-> refreshed],
                                            provider_calls(reply), 0,
                                            Len(tasks') - Len(tasks), store)
    /\ UNCHANGED criteria
    /\ UNCHANGED << store, now, urls, codes, running, authorized >>

\* The event loop runs the oldest update_credentials task.  Its exception,
\* if any, stays in the task object that nobody holds.
run_update_credentials ==
    /\ running
    /\ tasks # << >>
    /\ LET task == Head(tasks)
           upd == update_credentials(task.creds)
       IN  /\ tasks' = Tail(tasks)
           /\ store' = IF upd.ok THEN upd.record ELSE store
           /\ last' = Outcome("update_credentials", None, None, None,
                          [kind |-> IF upd.ok THEN "written" ELSE "ValueError",
                           task |-> task, calls |-> 1],
                          0, 0, 0, store)
    /\ UNCHANGED criteria
    /\ UNCHANGED << now, nextTok, grants, urls, codes, running, authorized,
                    refreshedFrom >>

\* A caller awaits update_credentials once more with the bundle it was last
\* called with.
update_credentials_again ==
    /\ running
    /\ last.op = "update_credentials"
    /\ last.result.calls < MaxCalls
    /\ LET task == last.result.task
           upd == update_credentials(task.creds)
       IN  /\ store' = IF upd.ok THEN upd.record ELSE store
           /\ last' = Outcome("update_credentials", None, None, None,
                          [kind |-> IF upd.ok THEN "written" ELSE "ValueError",
                           task |-> task, calls |-> last.result.calls + 1],
                          0, 0, 0, store)
    /\ UNCHANGED criteria
    /\ UNCHANGED << now, nextTok, grants, urls, codes, tasks, running,
                    authorized, refreshedFrom >>

\* The process exits.  lifespan does nothing after its yield, so the tasks
\* still queued on the loop are destroyed with it.  The model ends here.
shutdown ==
    /\ running
    /\ running' = FALSE
    /\ tasks' = << >>
    /\ last' = Outcome("shutdown", None, None, None,
                   [kind |-> "exit", dropped |-> tasks], 0, 0, 0, store)
    /\ UNCHANGED criteria
    /\ UNCHANGED << store, now, nextTok, grants, urls, codes, authorized,
                    refreshedFrom >>

Next ==
    \/ Tick
    \/ oauth
    \/ Consent
    \/ oauth_callback
    \/ get_credentials
    \/ run_update_credentials
    \/ update_credentials_again
    \/ shutdown

Spec == Init /\ [][Next]_vars

(* ---------------------- IMAP search criteria --------------------------- *)
\* EmailUtils.build_imap_search_criteria.  A string is the sequence of its
\* characters.  An optional argument is [kind |-> "none"]; a list of
\* addresses is [kind |-> "list", items |-> ...]; since is also a date
\* [kind |-> "date", ...] or a string [kind |-> "str", s |-> ...].
MaxSenders == 3
MaxReceivers == 2

Digits == {"0", "1", "2", "3", "4", "5", "6", "7", "8", "9"}
Letters == {"A", "B", "C", "D", "E", "F", "G", "H", "I", "J", "K", "L", "M",
            "N", "O", "P", "Q", "R", "S", "T", "U", "V", "W", "X", "Y", "Z",
            "a", "b", "c", "d", "e", "f", "g", "h", "i", "j", "k", "l", "m",
            "n", "o", "p", "q", "r", "s", "t", "u", "v", "w", "x", "y", "z"}
Whitespace == {" "}

DigitChar == << "0", "1", "2", "3", "4", "5", "6", "7", "8", "9" >>
MonthAbbr == << <<"J","a","n">>, <<"F","e","b">>, <<"M","a","r">>,
                <<"A","p","r">>, <<"M","a","y">>, <<"J","u","n">>,
                <<"J","u","l">>, <<"A","u","g">>, <<"S","e","p">>,
                <<"O","c","t">>, <<"N","o","v">>, <<"D","e","c">> >>

UNSEEN == <<"U","N","S","E","E","N">>
SINCE == <<"S","I","N","C","E">>
FROM == <<"F","R","O","M">>
TO == <<"T","O">>
ALL == <<"A","L","L">>
SPACE == <<" ">>
QUOTE == <<"\"">>

\* since.strftime("%d-%b-%Y")
strftime(d) ==
    << DigitChar[(d.day \div 10) + 1], DigitChar[(d.day % 10) + 1], "-" >>
    \o MonthAbbr[d.month] \o
    << "-", DigitChar[(d.year \div 1000) + 1],
       DigitChar[((d.year \div 100) % 10) + 1],
       DigitChar[((d.year \div 10) % 10) + 1],
       DigitChar[(d.year % 10) + 1] >>

\* re.match(r"\d{1,2}-[A-Za-z]{3}-\d{4}", s): the pattern is looked for at the
\* start of s, and what follows the match is not looked at.
re_match_date(str) ==
    \E k \in {1, 2} :
        /\ Len(str) >= k + 9
        /\ \A i \in 1..k : str[i] \in Digits
        /\ str[k + 1] = "-"
        /\ \A i \in (k + 2)..(k + 4) : str[i] \in Letters
        /\ str[k + 5] = "-"
        /\ \A i \in (k + 6)..(k + 9) : str[i] \in Digits

\* s.strip()
RECURSIVE lstrip(_)
lstrip(str) ==
    IF str # << >> /\ Head(str) \in Whitespace THEN lstrip(Tail(str)) ELSE str

RECURSIVE rstrip(_)
rstrip(str) ==
    IF str # << >> /\ str[Len(str)] \in Whitespace
    THEN rstrip(SubSeq(str, 1, Len(str) - 1)) ELSE str

strip(str) == rstrip(lstrip(str))

\* [s.strip() for s in addresses if s and s.strip()]
RECURSIVE valid_addresses(_)
valid_addresses(addresses) ==
    IF addresses = << >> THEN << >>
    ELSE LET a == Head(addresses)
         IN  IF a # << >> /\ strip(a) # << >>
             THEN << strip(a) >> \o valid_addresses(Tail(addresses))
             ELSE valid_addresses(Tail(addresses))

\* f'FROM "{address}"', f'TO "{address}"'
address_clause(keyword, address) ==
    keyword \o SPACE \o QUOTE \o address \o QUOTE

\* As or_loop, were the nesting done to the right, the way the comment of
\* line 73 draws it.
RECURSIVE or_loop_right(_, _, _)
or_loop_right(keyword, or_expression, rest) ==
    IF rest = << >> THEN or_expression
    ELSE <<"O","R"," ","(">> \o or_expression \o <<")"," ","(">>
         \o or_loop_right(keyword, address_clause(keyword, Head(rest)),
                          Tail(rest))
         \o <<")">>

\* The loop of lines 76-77 (90-91): each further address wraps the expression
\* built so far.
RECURSIVE or_loop(_, _, _)
or_loop(keyword, or_expression, rest) ==
    IF rest = << >> THEN or_expression
    ELSE or_loop(keyword,
                 <<"O","R"," ","(">> \o or_expression \o <<")"," ","(">>
                     \o address_clause(keyword, Head(rest)) \o <<")">>,
                 Tail(rest))

\* Lines 61-78 with FROM, lines 81-92 with TO: the parts the filter adds, or
\* the error it raises.
address_part(keyword, addresses) ==
    IF addresses.kind = "none" \/ addresses.items = << >>
    THEN [ok |-> TRUE, parts |-> << >>]
    ELSE LET valid == valid_addresses(addresses.items)
         IN  IF valid = << >>
             THEN [ok |-> FALSE,
                   error |-> IF keyword = FROM
                             THEN "No valid sender addresses provided"
                             ELSE "No valid receiver addresses provided"]
             ELSE IF Len(valid) = 1
             THEN [ok |-> TRUE,
                   parts |-> << address_clause(keyword, valid[1]) >>]
             ELSE [ok |-> TRUE,
                   parts |-> << <<"(">>
                                \o or_loop(keyword,
                                       address_clause(keyword, valid[1]),
                                       Tail(valid))
                                \o <<")">> >>]

\* Lines 46-58: the SINCE part, or the error of a string that does not match.
since_part(since) ==
    IF since.kind = "none" \/ (since.kind = "str" /\ since.s = << >>)
    THEN [ok |-> TRUE, parts |-> << >>]
    ELSE IF since.kind = "date"
    THEN [ok |-> TRUE, parts |-> << SINCE \o SPACE \o strftime(since) >>]
    ELSE IF ~re_match_date(since.s)
    THEN [ok |-> FALSE, error |-> "Date string must be in DD-Mon-YYYY format"]
    ELSE [ok |-> TRUE, parts |-> << SINCE \o SPACE \o since.s >>]

\* " ".join(parts)
RECURSIVE join(_)
join(parts) ==
    IF parts = << >> THEN << >>
    ELSE IF Len(parts) = 1 THEN parts[1]
    ELSE parts[1] \o SPACE \o join(Tail(parts))

\* As criteria_parts, were the address filters appended before the others.
criteria_parts_addresses_first(unseen, since, from, to) ==
    from \o to \o unseen \o since

\* The order in which lines 42-92 append to criteria_parts.
criteria_parts(unseen, since, from, to) ==
    unseen \o since \o from \o to

build_imap_search_criteria(senders, receivers, since, unseen_only) ==
    LET unseen == IF unseen_only THEN << UNSEEN >> ELSE << >>
        date == since_part(since)
        from == address_part(FROM, senders)
        to == address_part(TO, receivers)
    IN  IF ~date.ok THEN [kind |-> "ValueError", error |-> date.error]
        ELSE IF ~from.ok THEN [kind |-> "ValueError", error |-> from.error]
        ELSE IF ~to.ok THEN [kind |-> "ValueError", error |-> to.error]
        ELSE LET parts == criteria_parts(unseen, date.parts, from.parts,
                                         to.parts)
             IN  [kind |-> "str",
                  value |-> IF parts # << >> THEN join(parts) ELSE ALL]

\* The arguments the calls are made with.
SenderAddresses == { <<"a","@","x">>, <<" ","b","@","x"," ">>, <<" ">> }
ReceiverAddresses == { <<"r","@","y">>, <<"s","@","y">>, << >> }

Lists(addresses, n) ==
    UNION { [1..k -> addresses] : k \in 0..n }

Optional(lists) ==
    { [kind |-> "none"] } \cup { [kind |-> "list", items |-> l] : l \in lists }

SinceStrings ==
    { day \o <<"-">> \o month \o <<"-">> \o year \o trailer :
        day \in { <<"1">>, <<"0","1">>, <<"x">> },
        month \in { <<"J","a","n">>, <<"J","1","n">> },
        year \in { <<"2","0","2","4">>, <<"2","4">> },
        trailer \in { << >>, <<"x">> } }
    \cup { << >>, <<"b","a","d","-","d","a","t","e">> }

SinceValues ==
    { [kind |-> "none"] }
    \cup { [kind |-> "date", day |-> 1, month |-> 1, year |-> 2024],
           [kind |-> "date", day |-> 15, month |-> 12, year |-> 2023] }
    \cup { [kind |-> "str", s |-> str] : str \in SinceStrings }

CriteriaCalls ==
    [ called : {TRUE}, returned : {FALSE},
      senders : Optional(Lists(SenderAddresses, MaxSenders)),
      receivers : Optional(Lists(ReceiverAddresses, MaxReceivers)),
      since : SinceValues,
      unseen_only : BOOLEAN ]

\* The service is as lifespan left it; one call is about to be made.
InitCriteria ==
    /\ store = Absent
    /\ now = 0
    /\ nextTok = 1
    /\ grants = << >>
    /\ urls = {}
    /\ codes = {}
    /\ tasks = << >>
    /\ running = TRUE
    /\ last = Idle
    /\ authorized = {}
    /\ refreshedFrom = << >>
    /\ criteria \in CriteriaCalls

\* The call runs to its return or to its exception.
build_criteria ==
    /\ criteria.called
    /\ ~criteria.returned
    /\ criteria' = [ called |-> TRUE, returned |-> TRUE,
                     senders |-> criteria.senders,
                     receivers |-> criteria.receivers,
                     since |-> criteria.since,
                     unseen_only |-> criteria.unseen_only,
                     result |-> build_imap_search_criteria(
                                    criteria.senders, criteria.receivers,
                                    criteria.since, criteria.unseen_only) ]
    /\ UNCHANGED << store, now, nextTok, grants, urls, codes, tasks, running,
                    last, authorized, refreshedFrom >>

NextCriteria == build_criteria

SpecCriteria == InitCriteria /\ [][NextCriteria]_vars

(* ------------------------------- claims -------------------------------- *)
\* The credentials get_credentials loads from the record it found.
Loaded == get_creds_from_dict(last.pre.creds)

GotCredentials == last.op = "get_credentials" /\ last.pre # Absent

\* C1: when the stored access token is still valid, get_credentials returns
\* the stored credential, makes no refresh call, schedules no task and leaves
\* the store as it was.
C1_ValidTokenReturnedWithoutRefresh ==
    (GotCredentials /\ last.pre.creds.token # None
                    /\ now < Loaded.expiry - RefreshThreshold)
    => /\ last.result.kind = "creds"
       /\ last.result.creds.token = last.pre.creds.token
       /\ last.result.creds.refresh_token = last.pre.creds.refresh_token
       /\ last.refreshes = 0
       /\ last.scheduled = 0
       /\ last.reply = None
       /\ store = last.pre

C1_Witness ==
    /\ GotCredentials
    /\ now < Loaded.expiry - RefreshThreshold
    /\ last.result.kind = "creds"
    /\ last.refreshes = 0

\* C2: when the stored token is expired and the provider rejects the refresh,
\* get_credentials raises RefreshError carrying the provider's error under
\* raise_refresh_error=True and returns None otherwise; the store is as it
\* was and no task was scheduled.
C2_RejectedRefreshFollowsPolicy ==
    (GotCredentials /\ last.reply = "invalid_grant")
    => /\ last.policy => /\ last.result.kind = "RefreshError"
                         /\ last.result.error = "invalid_grant"
       /\ ~last.policy => last.result.kind = "None"
       /\ last.refreshes = 1
       /\ last.scheduled = 0
       /\ store = last.pre

C2_Witness ==
    /\ GotCredentials
    /\ last.reply = "invalid_grant"
    /\ last.policy
    /\ last.result.kind = "RefreshError"

C2_WitnessNull ==
    /\ GotCredentials
    /\ last.reply = "invalid_grant"
    /\ ~last.policy
    /\ last.result.kind = "None"

Refreshed == GotCredentials /\ last.reply = "tokens"

Persisted == last.op = "update_credentials" /\ last.result.kind = "written"

\* C3 as stated: after a successful refresh the returned token differs from
\* the stored one, and every read of the store made once the persist has
\* completed returns the new token, so the step that follows the persist
\* leaves that token in the store.
C3_EveryLaterReadReturnsNewToken ==
    [][ /\ Refreshed' => last'.result.creds.token # last'.pre.creds.token
        /\ Persisted =>
             get_creds_from_dict(store'.creds).token
                 = last.result.task.creds.token ]_vars

\* C3, amended: after a successful refresh the returned token differs from
\* the stored pre-refresh token, and a read of the store made when the persist
\* has completed, before any later write, returns the new token.
C3_RefreshedTokenPersisted ==
    /\ Refreshed => /\ last.result.kind = "creds"
                    /\ last.result.creds.token # last.pre.creds.token
                    /\ last.result.creds.token # None
    /\ Persisted => /\ store # Absent
                    /\ get_creds_from_dict(store.creds).token
                           = last.result.task.creds.token
                    /\ store.creds.token # last.result.task.from.token

C3_Witness ==
    /\ Persisted
    /\ last.result.calls = 1
    /\ store.creds.token = last.result.task.creds.token
    /\ last.pre # Absent
    /\ last.pre.creds.token = last.result.task.from.token

\* C4: get_credentials for an identity that never completed an authorization
\* fails with the not-found error; it returns neither None nor a credential.
C4_NeverAuthorizedFails ==
    (last.op = "get_credentials" /\ last.email \notin authorized)
    => last.result.kind = "FileNotFoundError"

\* C5: refreshes are serialized per identity: no stored token is refreshed
\* from twice, so no two successful refreshes replaced the same stored token.
C5_OneRefreshPerExpiry ==
    \A i, j \in DOMAIN refreshedFrom :
        i # j => refreshedFrom[i] # refreshedFrom[j]

\* C6: every re-persist started by a successful refresh completes its write:
\* no task ends in an exception nobody sees, and none is still queued when
\* the process exits.
C6_EveryPersistCompletes ==
    /\ last.op = "update_credentials" => last.result.kind = "written"
    /\ last.op = "shutdown" => last.result.dropped = << >>

\* C7: the callback writes the store only when the exchange succeeded and the
\* result carries an identity token; when the provider reports an error, the
\* exchange fails or the identity token is absent, the operation fails and
\* the store is as it was.
C7_FailedAuthorizationLeavesStore ==
    last.op = "oauth_callback"
    => /\ last.reply # "tokens"
          => /\ last.result.kind = "error_page"
             /\ store = last.pre
       /\ store # last.pre
          => /\ last.reply = "tokens"
             /\ last.result.creds.id_token # None

C7_Witness ==
    /\ last.op = "oauth_callback"
    /\ last.reply = "tokens_without_id_token"
    /\ last.result.kind = "error_page"
    /\ store # Absent
    /\ store = last.pre

C7_WitnessExchangeFailed ==
    /\ last.op = "oauth_callback"
    /\ last.reply = "invalid_grant"
    /\ last.result.kind = "error_page"
    /\ store = last.pre

Authorized == last.op = "oauth_callback" /\ last.result.kind = "success_page"

\* C8: after a successful callback the store holds a record whose email and
\* uid are the identity-token claims and whose token is the exchanged access
\* token, and a get_credentials that follows immediately returns that token
\* without a refresh call.
C8_AuthorizedThenValid ==
    /\ [](Authorized =>
            /\ store # Absent
            /\ store.email = last.result.user
            /\ store.uid = Sub_(last.result.user)
            /\ store.creds.token = last.result.creds.token
            /\ store.creds.token # None)
    /\ [][ (Authorized /\ last'.op = "get_credentials")
           => /\ last'.result.kind = "creds"
              /\ last'.result.creds.token = last.result.creds.token
              /\ last'.refreshes = 0
              /\ last'.scheduled = 0 ]_vars

\* The first authorization, then a get_credentials before any time passed.
C8_Witness ==
    /\ GotCredentials
    /\ nextTok = 2
    /\ now = 0
    /\ last.pre.email \in authorized
    /\ last.pre.creds.token = AccessToken(1)
    /\ last.result.kind = "creds"
    /\ last.result.creds.token = AccessToken(1)
    /\ last.refreshes = 0

\* C9: a record written by the authorization flow has a non-empty
\* refresh_token; a record re-written after a refresh carries the
\* refresh_token of the record the refresh started from, unless the provider
\* issued a new one, and then it carries the new one.
C9_RefreshTokenKept ==
    /\ store # Absent => store.creds.refresh_token \notin {None, ""}
    /\ Persisted =>
         LET task == last.result.task
         IN  /\ ~task.rotated
                => store.creds.refresh_token = task.from.refresh_token
             /\ task.rotated
                => /\ store.creds.refresh_token = task.creds.refresh_token
                   /\ store.creds.refresh_token # task.from.refresh_token

C9_Witness ==
    /\ Persisted
    /\ ~last.result.task.rotated
    /\ store.creds.refresh_token = last.pre.creds.refresh_token
    /\ store.creds.token # last.pre.creds.token

C9_WitnessRotated ==
    /\ Persisted
    /\ last.result.task.rotated
    /\ store.creds.refresh_token # last.pre.creds.refresh_token

\* C10: update_credentials is idempotent: a second or later call with the
\* same bundle leaves the store holding the record the call before it left.
C10_UpdateIdempotent ==
    (last.op = "update_credentials" /\ last.result.calls >= 2)
    => store = last.pre

C10_Witness ==
    /\ Persisted
    /\ last.result.calls = 2
    /\ store = last.pre
    /\ store.creds.token = last.result.task.creds.token

\* C11: POST /oauth leaves the credential store as it was for every request:
\* a supported (provider, service) pair gets the consent URL, any other pair
\* fails, and in neither case is a record created or changed.
C11_BeginAuthorizationLeavesStore ==
    last.op = "oauth"
    => /\ store = last.pre
       /\ last.result.supported
          => /\ last.result.kind = "url"
             /\ last.result.url.redirect_uri = REDIRECT_URL
             /\ last.result.url.scopes = IMAP_SCOPES
       /\ ~last.result.supported
          => last.result.kind \in {"RequestValidationError", "ValueError"}

C11_Witness ==
    /\ last.op = "oauth"
    /\ last.result.kind = "url"
    /\ store # Absent
    /\ store = last.pre

C11_WitnessUnsupported ==
    /\ last.op = "oauth"
    /\ ~last.result.supported
    /\ store # Absent
    /\ store = last.pre


\* The call of build_imap_search_criteria has returned a string.
Compiled == criteria.called /\ criteria.returned /\ criteria.result.kind = "str"

Occurs(sub, str) ==
    \E i \in 0..(Len(str) - Len(sub)) : SubSeq(str, i + 1, i + Len(sub)) = sub

NonBlank(addresses) ==
    /\ addresses.kind = "list"
    /\ addresses.items # << >>
    /\ \A i \in 1..Len(addresses.items) : strip(addresses.items[i]) # << >>

Given(addresses) == addresses.items
Stripped(addresses) ==
    [i \in 1..Len(addresses.items) |-> strip(addresses.items[i])]

\* acc_1 = clause(a_1), acc_k = "OR (" + acc_{k-1} + ") (" + clause(a_k) + ")"
RECURSIVE acc(_, _, _)
acc(keyword, a, k) ==
    IF k = 1 THEN keyword \o <<" ", "\"">> \o a[1] \o <<"\"">>
    ELSE <<"O","R"," ","(">> \o acc(keyword, a, k - 1) \o <<")"," ","(">>
         \o keyword \o <<" ", "\"">> \o a[k] \o <<"\"">> \o <<")">>

FoldClause(keyword, a) ==
    IF Len(a) = 1 THEN acc(keyword, a, 1)
    ELSE <<"(">> \o acc(keyword, a, Len(a)) \o <<")">>

OnlySenders ==
    /\ ~criteria.unseen_only
    /\ criteria.since.kind = "none"
    /\ criteria.receivers.kind = "none"

OnlyReceivers ==
    /\ ~criteria.unseen_only
    /\ criteria.since.kind = "none"
    /\ criteria.senders.kind = "none"

C12_WitnessSingle ==
    /\ Compiled
    /\ OnlyReceivers
    /\ criteria.receivers.kind = "list"
    /\ criteria.receivers.items = << <<"r","@","y">> >>
    /\ criteria.result.value = << "T","O"," ","\"","r","@","y","\"" >>

Kept(addresses) ==
    IF addresses.kind = "none" THEN << >>
    ELSE LET nonblank == SelectSeq(addresses.items,
                                   LAMBDA a : strip(a) # << >>)
         IN  [i \in 1..Len(nonblank) |-> strip(nonblank[i])]

PresentClauses ==
    (IF criteria.unseen_only THEN << UNSEEN >> ELSE << >>)
    \o (IF criteria.since.kind = "date"
        THEN << SINCE \o <<" ">> \o strftime(criteria.since) >>
        ELSE IF criteria.since.kind = "str" /\ criteria.since.s # << >>
        THEN << SINCE \o <<" ">> \o criteria.since.s >>
        ELSE << >>)
    \o (IF Kept(criteria.senders) # << >>
        THEN << FoldClause(FROM, Kept(criteria.senders)) >> ELSE << >>)
    \o (IF Kept(criteria.receivers) # << >>
        THEN << FoldClause(TO, Kept(criteria.receivers)) >> ELSE << >>)

RECURSIVE SpaceJoined(_, _)
SpaceJoined(clauses, k) ==
    IF k = 0 THEN << >>
    ELSE IF k = 1 THEN clauses[1]
    ELSE SpaceJoined(clauses, k - 1) \o <<" ">> \o clauses[k]

EveryFilterAbsent ==
    /\ ~criteria.unseen_only
    /\ criteria.since.kind = "none"
       \/ (criteria.since.kind = "str" /\ criteria.since.s = << >>)
    /\ criteria.senders.kind = "none" \/ criteria.senders.items = << >>
    /\ criteria.receivers.kind = "none" \/ criteria.receivers.items = << >>

\* C13: whenever build_imap_search_criteria returns, the string is the present
\* clauses in the order UNSEEN, SINCE <date>, FROM-clause, TO-clause with one
\* space between neighbours, and it is "ALL" exactly when every filter is
\* absent.
C13_ClausesJoinedInFixedOrder ==
    Compiled =>
        /\ (criteria.result.value = ALL) <=> EveryFilterAbsent
        /\ ~EveryFilterAbsent =>
              criteria.result.value
                  = SpaceJoined(PresentClauses, Len(PresentClauses))

\* All four filters present.
C13_Witness ==
    /\ Compiled
    /\ criteria.unseen_only
    /\ criteria.since = [kind |-> "date", day |-> 1, month |-> 1,
                         year |-> 2024]
    /\ criteria.senders.kind = "list"
    /\ criteria.senders.items = << <<"a","@","x">> >>
    /\ criteria.receivers.kind = "list"
    /\ criteria.receivers.items = << <<"r","@","y">> >>
    /\ criteria.result.value
           = << "U","N","S","E","E","N"," ",
                "S","I","N","C","E"," ","0","1","-","J","a","n","-",
                "2","0","2","4"," ",
                "F","R","O","M"," ","\"","a","@","x","\""," ",
                "T","O"," ","\"","r","@","y","\"" >>

\* No filter present: empty lists, the empty string and False.
C13_WitnessAll ==
    /\ Compiled
    /\ criteria.senders = [kind |-> "list", items |-> << >>]
    /\ criteria.receivers.kind = "none"
    /\ criteria.since = [kind |-> "str", s |-> << >>]
    /\ criteria.result.value = <<"A","L","L">>

\* str is exactly D[D]-Mon-YYYY: one or two digits, a hyphen, three letters,
\* a hyphen, four digits, and nothing else.
ExactDate(str) ==
    \E k \in {1, 2} :
        /\ Len(str) = k + 9
        /\ \A i \in 1..Len(str) :
              IF i = k + 1 \/ i = k + 5 THEN str[i] = "-"
              ELSE IF i > k + 1 /\ i < k + 5 THEN str[i] \in Letters
              ELSE str[i] \in Digits

\* C14: a call whose since is a string that is not exactly D[D]-Mon-YYYY ends
\* in the date-format error, and its string is never emitted after SINCE.
C14_NonMatchingSinceRejected ==
    (/\ criteria.called
     /\ criteria.returned
     /\ criteria.since.kind = "str"
     /\ ~ExactDate(criteria.since.s))
    => /\ criteria.result.kind = "ValueError"
       /\ criteria.result.error = "Date string must be in DD-Mon-YYYY format"

\* The same, for the strings that have a character in them.
C14_NonEmptyNonMatchingSinceRejected ==
    (/\ criteria.called
     /\ criteria.returned
     /\ criteria.since.kind = "str"
     /\ criteria.since.s # << >>
     /\ ~ExactDate(criteria.since.s))
    => /\ criteria.result.kind = "ValueError"
       /\ criteria.result.error = "Date string must be in DD-Mon-YYYY format"

\* A string that goes on after the date is emitted after SINCE.
C14_TrailingCharactersEmitted ==
    /\ Compiled
    /\ criteria.since
           = [kind |-> "str",
              s |-> <<"0","1","-","J","a","n","-","2","0","2","4","x">>]
    /\ Occurs(<<"S","I","N","C","E"," ","0","1","-","J","a","n","-",
                "2","0","2","4","x">>, criteria.result.value)

\* get_credentials read the record back and returned the credential it
\* reconstructed, without going to the provider.
ReadBack ==
    /\ last.op = "get_credentials"
    /\ last.result.kind = "creds"
    /\ last.reply = None

\* C15: the credential reconstructed from the stored record has the token
\* fields of the record as format_credentials wrote them, and the identity
\* token that was passed as extras.
C15_RoundTripPreservesFieldsAndExtras ==
    ReadBack =>
        /\ last.result.creds.id_token = last.pre.extras.id_token
        /\ \A k \in ScalarKeys \cup {"scopes"} :
              last.result.creds[k] = last.pre.creds[k]
        /\ last.result.creds.expiry = last.pre.creds.expiry.iso

\* The part of C15 about the extras alone.
C15_RoundTripPreservesIdentityToken ==
    ReadBack => last.result.creds.id_token = last.pre.extras.id_token

\* A read-back whose record carries an identity token and whose credential
\* carries none.
C15_IdentityTokenLost ==
    /\ ReadBack
    /\ last.pre.extras.id_token # None
    /\ last.result.creds.id_token = None

\* C16: one invocation of get_credentials sends at most one refresh request,
\* whether it succeeds or fails, and one invocation of oauth_callback sends at
\* most one code exchange; the other handlers send none.
C16_NoAutomaticRetries ==
    /\ last.refreshes <= 1
    /\ last.exchanges <= 1
    /\ last.op = "get_credentials" => last.exchanges = 0
    /\ last.op = "oauth_callback" => last.refreshes = 0
    /\ (last.op = "get_credentials"
        /\ last.reply \in {"invalid_grant", "transport", "tokens"})
       => last.refreshes = 1
    /\ (last.op = "oauth_callback" /\ last.reply # None)
       => last.exchanges = 1

\* A refresh the provider refused: one request, no second one.
C16_Witness ==
    /\ last.op = "get_credentials"
    /\ last.reply = "invalid_grant"
    /\ last.result.kind \in {"RefreshError", "None"}
    /\ last.refreshes = 1

\* A code exchange the provider refused: one request.
C16_WitnessExchange ==
    /\ last.op = "oauth_callback"
    /\ last.reply = "invalid_grant"
    /\ last.exchanges = 1

\* C17: when get_credentials returns after a successful refresh, the caller
\* has the new token, the store still holds the record that was read, and
\* the update_credentials that will write the new token is the task queued
\* last: the write has not happened at the return.
C17_ReturnsBeforePersist ==
    Refreshed =>
        /\ last.result.kind = "creds"
        /\ store = last.pre
        /\ store.creds.token # last.result.creds.token
        /\ last.scheduled = 1
        /\ tasks # << >>
        /\ tasks[Len(tasks)].creds = last.result.creds

\* The window: the caller holds the new token, the store the old one.
C17_Witness ==
    /\ Refreshed
    /\ last.result.creds.token = AccessToken(2)
    /\ store.creds.token = AccessToken(1)
    /\ Len(tasks) = 1
    /\ tasks[1].creds.token = AccessToken(2)

\* C18: a credential returned by get_credentials(email, service) comes from a
\* record whose email is the email argument and whose service is the service
\* argument.
C18_ReturnsRequestedIdentity ==
    (last.op = "get_credentials" /\ last.result.kind = "creds")
    => /\ last.pre.email = last.email
       /\ last.pre.service = IMAP
       /\ last.pre.provider = GCP

\* Both users have authorized; the one who asks gets the other's credential.
C18_OtherUsersCredentialReturned ==
    /\ last.op = "get_credentials"
    /\ last.result.kind = "creds"
    /\ authorized = Users
    /\ last.email = "alice"
    /\ last.pre.email = "bob"
    /\ grants[last.result.creds.refresh_token] = "bob"

\* C19: a credential returned by get_credentials is valid at the moment of
\* the return, on the path without refresh and on the refresh path: it has a
\* token and its expiry, less the refresh threshold, is still ahead.
C19_ReturnedCredentialValid ==
    (last.op = "get_credentials" /\ last.result.kind = "creds")
    => /\ last.result.creds.token # None
       /\ now < last.result.creds.expiry - RefreshThreshold
       /\ now < last.result.creds.expiry

\* The refresh path: the stored token had run out, the returned one has not.
C19_Witness ==
    /\ Refreshed
    /\ last.result.kind = "creds"
    /\ ~(now < Loaded.expiry - RefreshThreshold)
    /\ now < last.result.creds.expiry - RefreshThreshold

\* The path without refresh.
C19_WitnessStored ==
    /\ ReadBack
    /\ now > 0
    /\ now < last.result.creds.expiry - RefreshThreshold

\* C20: a re-persist that runs when an authorization has written the store
\* since the refresh was made leaves the record of that authorization: the
\* task queued before the callback and run right after it does not change
\* the store.
C20_PersistKeepsNewerRecord ==
    [][ (/\ Authorized
         /\ last'.op = "update_credentials"
         /\ last'.result.calls = 1)
        => store' = store ]_vars

\* bob's authorization was written after alice's token was refreshed, and the
\* re-persist of alice's refresh has replaced it.
C20_NewerRecordOverwritten ==
    /\ Persisted
    /\ last.result.calls = 1
    /\ tasks = << >>
    /\ last.pre.email = "bob"
    /\ last.pre.creds.token # last.result.task.from.token
    /\ store.email = "alice"
    /\ store.creds.token = last.result.task.creds.token

====
